---- MODULE Spec2Model ----
(***************************************************************************)
(* State-machine model of DeepSearchAgent (src/deep_research/agent.py):    *)
(* the research() pipeline, its collaborators (LLM client, web search),    *)
(* the files it writes, its state persistence and progress query, and the  *)
(* Streamlit front end driving the same pipeline step by step.             *)
(*                                                                         *)
(* Conventions.                                                            *)
(*  - A text (Python str) is a sequence of tokens; the empty string is      *)
(*    << >>; concatenation is \o.  A query is a sequence of characters.     *)
(*  - An optional value is << >> (unset / None) or << v >> (set to v).     *)
(*  - paragraph_index is 0-based as in the code; TLA+ sequences are        *)
(*    1-based, so paragraph i is state.paragraphs[i + 1].                  *)
(*  - The pipeline is split at its blocking collaborator calls; pc is the  *)
(*    position inside the running driver.  No other operation of the agent *)
(*    runs while a pipeline step is in progress (single-threaded program). *)
(*  - The stages update the session object they are given and return it,   *)
(*    so a reference into self.state stays valid across mutate_state       *)
(*    (copying = FALSE).  SpecAlias also explores stages that return a     *)
(*    new session object (copying = TRUE).                                 *)
(*  - trace, thrown, failed, results_returned, done_snapshot, completion,  *)
(*    summary_input, api and saved are history variables: they record what *)
(*    happened and are never read by an action's guard or effect on the    *)
(*    program state.                                                       *)
(***************************************************************************)
EXTENDS Integers, Sequences, FiniteSets, TLC

\* ------------------------------------------------------------------ bounds
MaxSections == 2
MaxReflections == 1
MaxResults == 2
\* max_reflections of the runs of SpecAlias
AliasReflections == 2
\* longest text the filename fragment is computed for, besides Queries
MaxQueryLen == 3

VARIABLES
    state,            \* self.state: the session
    config,           \* self.config
    pc,               \* position of the running driver
    driver,           \* who drives the pipeline: research() or execute_research
    query,            \* research(query, ...)
    save_report,      \* research(..., save_report)
    total_paragraphs, \* local of _process_paragraphs
    paragraph_index,  \* loop variable i of _process_paragraphs (0-based)
    reflection_i,     \* loop variable of _reflection_loop (0-based)
    paragraph,        \* local of _reflection_loop, when it no longer refers
                      \* to an object of self.state: the object it refers to
    search_query,     \* local: the query produced by the query stage
    final_report,     \* local of research(): value returned
    exc,              \* exception research() raised to its caller
    files,            \* files written by the current run (_save_report)
    disk,             \* the file save_state writes and load_state reads
    copying,          \* whether mutate_state returns a new session object
    trace,            \* history: collaborator/stage calls of the current run
    thrown,           \* history: exception as thrown by the failing stage
    failed,           \* history: the stage call that failed in this run
    results_returned, \* history: per section, results the searches returned
    done_snapshot,    \* history: each section as it was when marked completed
    completion,       \* history: outcome of the latest llm_client.invoke
    summary_input,    \* history: paragraph_latest_state given to the latest
                      \* reflection stage
    api,              \* history: the agent call that has just returned
    saved             \* history: the session as it was at the latest save_state

vars == << state, config, pc, driver, query, save_report, total_paragraphs,
           paragraph_index, reflection_i, paragraph, search_query,
           final_report, exc, files, disk, copying, trace, thrown, failed,
           results_returned, done_snapshot, completion, summary_input, api,
           saved >>

\* What no step of the pipeline changes.
fixed == << config, query, save_report, driver, copying, disk, saved >>

\* ------------------------------------------------------------------ texts
Unset == << >>
Some(t) == << t >>
EmptyText == << >>

\* Characters of a query: alphanumeric ones (str.isalnum), the three the
\* filename keeps besides, and others.
Alnum == { "a", "b", "7" }
Kept == { " ", "-", "_" }
Chars == Alnum \cup Kept \cup { "?", "/" }

\* The query of a run: characters of every kind, blanks at its end, and more
\* kept characters than the filename fragment holds.
LongQuery == [k \in 1..40 |-> IF k % 5 = 0 \/ k > 38 THEN " "
                              ELSE IF k % 7 = 0 THEN "?"
                              ELSE IF k % 3 = 0 THEN "-"
                              ELSE IF k % 11 = 0 THEN "_"
                              ELSE IF k % 2 = 0 THEN "7" ELSE "a"]
Queries == { LongQuery }

\* Completions of the provider: for the initial summary and the report, and
\* for a reflection summary.
LLMTexts == { <<"a">> }
ReflectionTexts == { <<"b">> }
SearchQueryText == <<"sq">>

SectionTitle(k) == << "T", ToString(k) >>
SectionContent(k) == << "E", ToString(k) >>
ReportTitle(q) == << "About" >> \o q

\* --------------------------------------------------- language-model client
\* What the provider does with one chat.completions.create call.
Responses == { "error", "no_choices", "content" }

NoExc == [type |-> "none", reason |-> "none"]
ProviderError == [type |-> "LLMFailure", reason |-> "provider_error"]
EmptyResponse == [type |-> "LLMFailure", reason |-> "empty_response"]
CorruptState == [type |-> "CorruptState", reason |-> "malformed_file"]

\* DeepSeekLLM.invoke: a provider exception is re-raised; a response without
\* choices (or without a message) returns ""; otherwise the content is returned.
invoke(resp, content) ==
    IF resp = "error"
    THEN [raised |-> TRUE, e |-> ProviderError, value |-> EmptyText]
    ELSE IF resp = "content"
         THEN [raised |-> FALSE, e |-> NoExc, value |-> content]
         ELSE [raised |-> FALSE, e |-> NoExc, value |-> EmptyText]

\* The record of one invoke call: what the provider did and what the caller got.
Completion(resp, r) == [resp |-> resp, raised |-> r.raised, value |-> r.value]
NoCompletion == [resp |-> "none", raised |-> FALSE, value |-> <<"none">>]

\* A stage whose output is a structured record (outline, search query): it
\* fails when the client raises or when there is no completion to parse.
StructuredStage(resp) ==
    LET r == invoke(resp, <<"json">>)
    IN  IF r.raised THEN r
        ELSE IF r.value = EmptyText
             THEN [raised |-> TRUE, e |-> EmptyResponse, value |-> EmptyText]
             ELSE r

\* A stage whose output is a text (summary, formatted report): the completion
\* is the output.
TextStage(resp, content) == invoke(resp, content)

\* ------------------------------------------------------------ state model
NewResearch ==
    [search_history |-> << >>, latest_summary |-> EmptyText,
     reflection_iteration |-> 0, is_completed |-> FALSE]

NewParagraph(k) ==
    [title |-> SectionTitle(k), content |-> SectionContent(k),
     research |-> NewResearch]

\* State(): a fresh session.
NewState ==
    [query |-> EmptyText, report_title |-> EmptyText, paragraphs |-> << >>,
     final_report |-> Unset, status |-> "Created"]

\* add_search_results appending one entry per call, whatever the results.
add_search_results_one_per_call(research, q, results) ==
    [research EXCEPT !.search_history =
        Append(@, [query |-> q, result |-> "result"])]

\* Research.add_search_results(query, results): the history holds one entry
\* per search result (query, url, title, content, score), which is how
\* display_results reads it.
add_search_results(research, q, results) ==
    [research EXCEPT !.search_history =
        @ \o [k \in 1..Len(results) |-> [query |-> q, result |-> results[k]]]]

\* Research.mark_completed()
research_mark_completed(research) == [research EXCEPT !.is_completed = TRUE]

\* State.mark_completed(): guarded by final_report being set.
StateCanComplete(s) == s.final_report # Unset
state_mark_completed(s) == [s EXCEPT !.status = "Completed"]

\* ReportStructureNode.mutate_state: sets query, report title and sections.
ReportStructureNode_mutate_state(s, q, n) ==
    [s EXCEPT !.query = q,
              !.report_title = ReportTitle(q),
              !.paragraphs = [k \in 1..n |-> NewParagraph(k)],
              !.status = "InProgress"]

\* FirstSummaryNode.mutate_state: writes the section's latest summary.
FirstSummaryNode_mutate_state(s, i, text) ==
    [s EXCEPT !.paragraphs[i + 1].research.latest_summary = text]

\* ReflectionSummaryNode.mutate_state: overwrites the summary, counts the round.
ReflectionSummaryNode_mutate_state(s, i, text) ==
    [s EXCEPT !.paragraphs[i + 1].research.latest_summary = text,
              !.paragraphs[i + 1].research.reflection_iteration = @ + 1]

\* tavily_search: at most max_results results; a timeout or an error is an
\* empty list.  A result is an opaque payload; the lists explored hold no
\* result, one result, or max_results results.
SearchOutcomes(max_results) ==
    { [k \in 1..n |-> "result"] : n \in { m \in { 0, 1, max_results } : m <= max_results } }

\* ReportFormattingNode.format_report_manually(report_data, report_title)
RECURSIVE ManualSections(_)
ManualSections(report_data) ==
    IF report_data = << >> THEN << >>
    ELSE << "## " >> \o Head(report_data).title \o << "\n\n" >>
         \o Head(report_data).paragraph_latest_state \o << "\n\n" >>
         \o ManualSections(Tail(report_data))

format_report_manually(report_data, report_title) ==
    << "# " >> \o report_title \o << "\n\n" >> \o ManualSections(report_data)

\* State.get_progress_summary()
RECURSIVE CountCompleted(_)
CountCompleted(paragraphs) ==
    IF paragraphs = << >> THEN 0
    ELSE (IF Head(paragraphs).research.is_completed THEN 1 ELSE 0)
         + CountCompleted(Tail(paragraphs))

state_get_progress_summary(s) ==
    LET total == Len(s.paragraphs)
        completed == CountCompleted(s.paragraphs)
    IN  [total_paragraphs |-> total,
         completed_paragraphs |-> completed,
         progress_percentage |->
             IF total > 0 THEN (completed * 100) \div total ELSE 0,
         is_completed |-> s.status = "Completed"]

\* --------------------------------------------------------- persisted state
\* State.to_dict / save_to_file: the persisted document.
Serialize(s) ==
    [query |-> s.query, reportTitle |-> s.report_title,
     status |-> s.status, finalReport |-> s.final_report,
     sections |-> [k \in 1..Len(s.paragraphs) |->
        [title |-> s.paragraphs[k].title,
         expectedContent |-> s.paragraphs[k].content,
         research |->
            [searchHistory |-> s.paragraphs[k].research.search_history,
             reflectionCount |-> s.paragraphs[k].research.reflection_iteration,
             latestSummary |-> s.paragraphs[k].research.latest_summary,
             completed |-> s.paragraphs[k].research.is_completed]]]]

SessionFields == { "query", "reportTitle", "status", "finalReport", "sections" }
SectionFields == { "title", "expectedContent", "research" }
ResearchFields ==
    { "searchHistory", "reflectionCount", "latestSummary", "completed" }

\* Whether a file holds a document with every required field.
WellFormed(doc) ==
    /\ SessionFields \subseteq DOMAIN doc
    /\ \A k \in 1..Len(doc.sections) :
        /\ SectionFields \subseteq DOMAIN doc.sections[k]
        /\ ResearchFields \subseteq DOMAIN doc.sections[k].research

\* State.from_dict: the session a well-formed document describes.
Deserialize(doc) ==
    [query |-> doc.query, report_title |-> doc.reportTitle,
     paragraphs |-> [k \in 1..Len(doc.sections) |->
        [title |-> doc.sections[k].title,
         content |-> doc.sections[k].expectedContent,
         research |->
            [search_history |-> doc.sections[k].research.searchHistory,
             latest_summary |-> doc.sections[k].research.latestSummary,
             reflection_iteration |-> doc.sections[k].research.reflectionCount,
             is_completed |-> doc.sections[k].research.completed]]],
     final_report |-> doc.finalReport, status |-> doc.status]

\* State.load_from_file: rejects a file that is not a well-formed document.
load_from_file(doc) ==
    IF WellFormed(doc)
    THEN [raised |-> FALSE, e |-> NoExc, value |-> Deserialize(doc)]
    ELSE [raised |-> TRUE, e |-> CorruptState, value |-> NewState]

\* A file that is not a document at all.
NotJson == [garbage |-> TRUE]

Without(rec, field) == [f \in DOMAIN rec \ { field } |-> rec[f]]

\* Damaged versions of a document: a top-level field missing, a field of the
\* first section missing.
Damaged(doc) ==
    { NotJson, Without(doc, "status") }
    \cup (IF doc.sections = << >> THEN {}
          ELSE { [doc EXCEPT !.sections[1] = Without(@, "research")] })

\* ------------------------------------------------------------ report files
\* Length of the query-derived part of a filename ([:30]).
FragmentLimit == 30
Timestamps == { "t1", "t2" }

RECURSIVE rstrip(_)
rstrip(s) ==
    IF s # << >> /\ s[Len(s)] = " " THEN rstrip(SubSeq(s, 1, Len(s) - 1))
    ELSE s

Keep(c) == c \in Alnum \cup Kept
replace_spaces(s) == [k \in 1..Len(s) |-> IF s[k] = " " THEN "_" ELSE s[k]]
Prefix(s, n) == SubSeq(s, 1, IF Len(s) < n THEN Len(s) ELSE n)

\* query_safe without the [:30].
query_safe_untruncated(q) == replace_spaces(rstrip(SelectSeq(q, Keep)))

\* "".join(c for c in query if c.isalnum() or c in (' ', '-', '_')).rstrip()
\* then .replace(' ', '_')[:30]
query_safe(q) == Prefix(replace_spaces(rstrip(SelectSeq(q, Keep))), FragmentLimit)

FileName(prefix, fragment, timestamp, ext) ==
    [prefix |-> prefix, fragment |-> fragment, timestamp |-> timestamp,
     ext |-> ext]

NoFiles ==
    [report |-> Unset, report_name |-> Unset, state |-> Unset,
     state_name |-> Unset]

\* ------------------------------------------------------------- the agent
Idle == { "idle", "returned", "raised", "error_shown" }

\* Where the agent is when no pipeline is running on it: as above, or a
\* second agent constructed to load a saved state.
AtRest == Idle \cup { "constructed" }

\* Positions of execute_research at which it calls update_status_info.
UpdatePoints ==
    { "update_init", "update_outline", "update_initial", "update_section" }

\* One entry of the history of calls: operation, section (0-based, -1 for
\* none) and reflection round (0 = initial phase).
Event(op, i, r) == [op |-> op, i |-> i, r |-> r]

\* research_except raising a new exception in place of the one caught.
research_except_wrapped(e) == [type |-> "ResearchError", reason |-> e.reason]

\* research(): except Exception as e: ...; raise e
research_except(e) == e

NoEvent == Event("none", -1, 0)

\* The record of an agent call made by a client: save_state, load_state,
\* get_progress_summary.
Call(op, raised, value) == [op |-> op, raised |-> raised, value |-> value]
NoValue == [none |-> TRUE]
NoCall == Call("none", FALSE, NoValue)

\* What every step of the pipeline leaves alone.
Pipeline ==
    /\ api' = NoCall
    /\ UNCHANGED fixed

\* A stage call fails with e: the exception propagates out of the step
\* methods to research(), whose handler re-raises it to the caller, or to
\* execute_research, whose handler shows it.
Raise(e) ==
    /\ pc' = IF driver = "streamlit" THEN "error_shown" ELSE "raised"
    /\ exc' = IF driver = "streamlit" THEN NoExc ELSE research_except(e)
    /\ thrown' = e
    /\ failed' = trace'[Len(trace')]

\* Where _process_paragraphs goes after _initial_search_and_summary.
LoopEntry ==
    IF 0 < config.max_reflections THEN "reflection_query" ELSE "mark_completed"

\* The object the local paragraph of _reflection_loop refers to.
ParagraphObject ==
    IF paragraph = Unset THEN state.paragraphs[paragraph_index + 1]
    ELSE paragraph[1]

\* ------------------------------------------------------------ configuration
\* Values of default_llm_provider: the two the agent knows, and another one.
Providers == { "deepseek", "openai", "gemini" }

\* Values of an API key field: None, the empty string, a key.
ApiKeys == { Unset, Some(""), Some("sk") }
Truthy(key) == key # Unset /\ key[1] # ""

\* Config.validate()
validate(c) ==
    IF c.default_llm_provider = "deepseek" /\ ~ Truthy(c.deepseek_api_key)
    THEN FALSE
    ELSE IF c.default_llm_provider = "openai" /\ ~ Truthy(c.openai_api_key)
    THEN FALSE
    ELSE IF ~ Truthy(c.tavily_api_key)
    THEN FALSE
    ELSE TRUE

ConfigError == [type |-> "ValueError", reason |-> "config_validation_failed"]
UnsupportedProvider == [type |-> "ValueError", reason |-> "unsupported_llm_provider"]
KeyNotFound == [type |-> "ValueError", reason |-> "api_key_not_found"]

\* The outcome of constructing a client: the client, or the exception raised.
Client(class, key) == [raised |-> FALSE, llm |-> class, api_key |-> key]
Failed(e) == [raised |-> TRUE, e |-> e]

\* DeepSeekLLM.__init__(api_key, model_name): a key of None is looked up in
\* the environment (env), and the constructor raises if none is found there.
DeepSeekLLM(api_key, env) ==
    IF api_key = Unset
    THEN IF ~ Truthy(env) THEN Failed(KeyNotFound)
         ELSE Client("DeepSeekLLM", env)
    ELSE Client("DeepSeekLLM", api_key)

\* OpenAILLM.__init__(api_key, model_name)
OpenAILLM(api_key, env) ==
    IF api_key = Unset
    THEN IF ~ Truthy(env) THEN Failed(KeyNotFound)
         ELSE Client("OpenAILLM", env)
    ELSE Client("OpenAILLM", api_key)

\* DeepSearchAgent._initialize_llm()
initialize_llm(c, env) ==
    IF c.default_llm_provider = "deepseek"
    THEN DeepSeekLLM(c.deepseek_api_key, env)
    ELSE IF c.default_llm_provider = "openai"
    THEN OpenAILLM(c.openai_api_key, env)
    ELSE Failed(UnsupportedProvider)

InitWith(reflections, copies) ==
    /\ state = NewState
    /\ config \in [default_llm_provider : { "deepseek" },
                   deepseek_api_key : { Some("sk") },
                   openai_api_key : { Unset },
                   tavily_api_key : { Some("sk") },
                   max_reflections : reflections,
                   max_search_results : {MaxResults},
                   save_intermediate_states : BOOLEAN]
    /\ copying \in copies
    /\ pc = "idle"
    /\ driver = "none"
    /\ query = EmptyText
    /\ save_report = FALSE
    /\ total_paragraphs = 0
    /\ paragraph_index = 0
    /\ reflection_i = 0
    /\ paragraph = Unset
    /\ search_query = EmptyText
    /\ final_report = EmptyText
    /\ exc = NoExc
    /\ files = NoFiles
    /\ disk = Unset
    /\ trace = << >>
    /\ thrown = NoExc
    /\ failed = NoEvent
    /\ results_returned = << >>
    /\ done_snapshot = << >>
    /\ completion = NoCompletion
    /\ summary_input = Unset
    /\ api = NoCall
    /\ saved = Unset

\* DeepSearchAgent(config)
Init == InitWith(0..MaxReflections, { FALSE })

\* Entry of a run of the pipeline.
StartRun(d, q, sr, first) ==
    /\ pc' = first
    /\ driver' = d
    /\ query' = q
    /\ save_report' = sr
    /\ trace' = << >>
    /\ exc' = NoExc
    /\ thrown' = NoExc
    /\ failed' = NoEvent
    /\ results_returned' = << >>
    /\ done_snapshot' = << >>
    /\ completion' = NoCompletion
    /\ summary_input' = Unset
    /\ api' = NoCall
    /\ total_paragraphs' = 0
    /\ paragraph_index' = 0
    /\ reflection_i' = 0
    /\ paragraph' = Unset
    /\ search_query' = EmptyText
    /\ final_report' = EmptyText
    /\ files' = NoFiles
    /\ UNCHANGED << config, copying, disk, saved >>

\* research(query, save_report): entry of a call (lines 75-90).
research_call(q, sr) ==
    /\ StartRun("research", q, sr, "generate_report_structure")
    /\ UNCHANGED state

\* The first research() call on a freshly constructed agent.
research(q, sr) ==
    /\ pc = "idle"
    /\ research_call(q, sr)

\* A further research() call on the same agent, after an earlier call has
\* returned or raised (advanced_example calls research() in a loop).
research_again(q, sr) ==
    /\ pc \in { "returned", "raised" }
    /\ research_call(q, sr)

\* execute_research(query, config, status_container), lines 347-356: a new
\* agent is constructed for the run, which always saves its report.
execute_research(q) ==
    /\ pc = "idle"
    /\ StartRun("streamlit", q, TRUE, "update_init")
    /\ state' = NewState

\* _generate_report_structure(query): the outline stage.
generate_report_structure ==
    /\ pc = "generate_report_structure"
    /\ trace' = Append(trace, Event("report_structure", -1, 0))
    /\ \E resp \in Responses, n \in 1..MaxSections :
         LET out == StructuredStage(resp)
         IN  /\ completion' = Completion(resp, invoke(resp, <<"json">>))
             /\ IF out.raised
                THEN /\ Raise(out.e)
                     /\ UNCHANGED << state, total_paragraphs, results_returned >>
                ELSE /\ state' = ReportStructureNode_mutate_state(state, query, n)
                     /\ total_paragraphs' = n
                     /\ results_returned' = [k \in 1..n |-> 0]
                     /\ pc' = IF driver = "streamlit" THEN "update_outline"
                              ELSE "first_search_query"
                     /\ UNCHANGED << exc, thrown, failed >>
    /\ Pipeline
    /\ UNCHANGED << paragraph_index, reflection_i, paragraph, search_query,
                    final_report, files, done_snapshot, summary_input >>

\* _initial_search_and_summary, lines 150-165: first_search_node.run
first_search_query ==
    /\ pc = "first_search_query"
    /\ trace' = Append(trace, Event("first_search_query", paragraph_index, 0))
    /\ \E resp \in Responses :
         LET out == StructuredStage(resp)
         IN  /\ completion' = Completion(resp, invoke(resp, <<"json">>))
             /\ IF out.raised
                THEN /\ Raise(out.e)
                     /\ UNCHANGED search_query
                ELSE /\ search_query' = SearchQueryText
                     /\ pc' = "first_search"
                     /\ UNCHANGED << exc, thrown, failed >>
    /\ Pipeline
    /\ UNCHANGED << state, total_paragraphs, paragraph_index, reflection_i,
                    paragraph, final_report, files, results_returned,
                    done_snapshot, summary_input >>

\* first_search treating an empty result list as a failure of the run.
first_search_aborting ==
    /\ pc = "first_search"
    /\ trace' = Append(trace, Event("search", paragraph_index, 0))
    /\ \E results \in SearchOutcomes(config.max_search_results) :
         IF results = << >>
         THEN /\ Raise([type |-> "SearchError", reason |-> "no_results"])
              /\ UNCHANGED << state, results_returned >>
         ELSE /\ state' = [state EXCEPT
                              !.paragraphs[paragraph_index + 1].research =
                                  add_search_results(@, search_query, results)]
              /\ results_returned' =
                     [results_returned EXCEPT
                         ![paragraph_index + 1] = @ + Len(results)]
              /\ pc' = "first_summary"
              /\ UNCHANGED << exc, thrown, failed >>
    /\ Pipeline
    /\ UNCHANGED << total_paragraphs, paragraph_index, reflection_i, paragraph,
                    search_query, final_report, files, done_snapshot,
                    completion, summary_input >>

\* first_search recording the results in the section before the current one.
first_search_off_by_one ==
    /\ pc = "first_search"
    /\ trace' = Append(trace, Event("search", paragraph_index, 0))
    /\ \E results \in SearchOutcomes(config.max_search_results) :
         LET k == IF paragraph_index > 0 THEN paragraph_index
                  ELSE paragraph_index + 1
         IN  /\ state' = [state EXCEPT !.paragraphs[k].research =
                              add_search_results(@, search_query, results)]
             /\ results_returned' =
                    [results_returned EXCEPT ![k] = @ + Len(results)]
    /\ pc' = "first_summary"
    /\ Pipeline
    /\ UNCHANGED << total_paragraphs, paragraph_index, reflection_i, paragraph,
                    search_query, final_report, exc, files, thrown, failed,
                    done_snapshot, completion, summary_input >>

\* _initial_search_and_summary, lines 167-184: tavily_search, then
\* paragraph.research.add_search_results(search_query, search_results)
first_search ==
    /\ pc = "first_search"
    /\ trace' = Append(trace, Event("search", paragraph_index, 0))
    /\ \E results \in SearchOutcomes(config.max_search_results) :
         /\ state' = [state EXCEPT !.paragraphs[paragraph_index + 1].research =
                          add_search_results(@, search_query, results)]
         /\ results_returned' =
                [results_returned EXCEPT ![paragraph_index + 1] = @ + Len(results)]
    /\ pc' = "first_summary"
    /\ Pipeline
    /\ UNCHANGED << total_paragraphs, paragraph_index, reflection_i, paragraph,
                    search_query, final_report, exc, files, thrown, failed,
                    done_snapshot, completion, summary_input >>

\* first_summary with a failure of the stage caught and the section carried
\* on into the reflection loop.
first_summary_swallowing ==
    /\ pc = "first_summary"
    /\ trace' = Append(trace, Event("first_summary", paragraph_index, 0))
    /\ \E resp \in Responses, content \in LLMTexts :
         LET out == TextStage(resp, content)
         IN  /\ completion' = Completion(resp, out)
             /\ state' = IF out.raised THEN state
                         ELSE FirstSummaryNode_mutate_state(
                                  state, paragraph_index, out.value)
             /\ thrown' = IF out.raised THEN out.e ELSE thrown
             /\ failed' = IF out.raised THEN trace'[Len(trace')] ELSE failed
    /\ reflection_i' = 0
    /\ pc' = LoopEntry
    /\ Pipeline
    /\ UNCHANGED << total_paragraphs, paragraph_index, paragraph, search_query,
                    final_report, exc, files, results_returned, done_snapshot,
                    summary_input >>

\* first_summary with the search of the step undone when the stage fails.
first_summary_rolling_back ==
    /\ pc = "first_summary"
    /\ trace' = Append(trace, Event("first_summary", paragraph_index, 0))
    /\ \E resp \in Responses, content \in LLMTexts :
         LET out == TextStage(resp, content)
         IN  /\ completion' = Completion(resp, out)
             /\ IF out.raised
                THEN /\ Raise(out.e)
                     /\ state' = [state EXCEPT
                            !.paragraphs[paragraph_index + 1].research
                                .search_history = << >>]
                     /\ UNCHANGED reflection_i
                ELSE /\ state' = FirstSummaryNode_mutate_state(
                                     state, paragraph_index, out.value)
                     /\ reflection_i' = 0
                     /\ pc' = LoopEntry
                     /\ UNCHANGED << exc, thrown, failed >>
    /\ Pipeline
    /\ UNCHANGED << total_paragraphs, paragraph_index, paragraph, search_query,
                    final_report, files, results_returned, done_snapshot,
                    summary_input >>

\* _initial_search_and_summary, lines 186-204: first_summary_node.mutate_state;
\* then the driver goes on to _reflection_loop, whose local paragraph is read
\* from self.state (line 208).
first_summary ==
    /\ pc = "first_summary"
    /\ trace' = Append(trace, Event("first_summary", paragraph_index, 0))
    /\ \E resp \in Responses, content \in LLMTexts :
         LET out == TextStage(resp, content)
         IN  /\ completion' = Completion(resp, out)
             /\ IF out.raised
                THEN /\ Raise(out.e)
                     /\ UNCHANGED << state, reflection_i >>
                ELSE /\ state' = FirstSummaryNode_mutate_state(
                                     state, paragraph_index, out.value)
                     /\ reflection_i' = 0
                     /\ pc' = IF driver = "streamlit" THEN "update_initial"
                              ELSE LoopEntry
                     /\ UNCHANGED << exc, thrown, failed >>
    /\ Pipeline
    /\ UNCHANGED << total_paragraphs, paragraph_index, paragraph, search_query,
                    final_report, files, results_returned, done_snapshot,
                    summary_input >>

\* _reflection_loop, lines 213-226: reflection_node.run on the title, content
\* and latest summary read through the local paragraph.
reflection_query ==
    /\ pc = "reflection_query"
    /\ trace' = Append(trace,
                    Event("reflection_query", paragraph_index, reflection_i + 1))
    /\ summary_input' = Some(ParagraphObject.research.latest_summary)
    /\ \E resp \in Responses :
         LET out == StructuredStage(resp)
         IN  /\ completion' = Completion(resp, invoke(resp, <<"json">>))
             /\ IF out.raised
                THEN /\ Raise(out.e)
                     /\ UNCHANGED search_query
                ELSE /\ search_query' = SearchQueryText
                     /\ pc' = "reflection_search"
                     /\ UNCHANGED << exc, thrown, failed >>
    /\ Pipeline
    /\ UNCHANGED << state, total_paragraphs, paragraph_index, reflection_i,
                    paragraph, final_report, files, results_returned,
                    done_snapshot >>

\* reflection_search recording the results in the section after the current
\* one as well.
reflection_search_spilling ==
    /\ pc = "reflection_search"
    /\ trace' = Append(trace, Event("search", paragraph_index, reflection_i + 1))
    /\ \E results \in SearchOutcomes(config.max_search_results) :
         /\ state' = [state EXCEPT !.paragraphs =
                [k \in DOMAIN @ |->
                    IF k \in { paragraph_index + 1, paragraph_index + 2 }
                    THEN [@[k] EXCEPT !.research =
                             add_search_results(@, search_query, results)]
                    ELSE @[k]]]
         /\ results_returned' =
                [results_returned EXCEPT ![paragraph_index + 1] = @ + Len(results)]
    /\ pc' = "reflection_summary"
    /\ Pipeline
    /\ UNCHANGED << total_paragraphs, paragraph_index, reflection_i, paragraph,
                    search_query, final_report, exc, files, thrown, failed,
                    done_snapshot, completion, summary_input >>

\* _reflection_loop, lines 228-240: tavily_search, then
\* paragraph.research.add_search_results(search_query, search_results) on the
\* object the local paragraph refers to.
reflection_search ==
    /\ pc = "reflection_search"
    /\ trace' = Append(trace, Event("search", paragraph_index, reflection_i + 1))
    /\ \E results \in SearchOutcomes(config.max_search_results) :
         /\ IF paragraph = Unset
            THEN /\ state' = [state EXCEPT
                        !.paragraphs[paragraph_index + 1].research =
                            add_search_results(@, search_query, results)]
                 /\ UNCHANGED paragraph
            ELSE /\ paragraph' = Some([paragraph[1] EXCEPT !.research =
                        add_search_results(@, search_query, results)])
                 /\ UNCHANGED state
         /\ results_returned' =
                [results_returned EXCEPT ![paragraph_index + 1] = @ + Len(results)]
    /\ pc' = "reflection_summary"
    /\ Pipeline
    /\ UNCHANGED << total_paragraphs, paragraph_index, reflection_i,
                    search_query, final_report, exc, files, thrown, failed,
                    done_snapshot, completion, summary_input >>

\* reflection_summary running one round more than configured.
reflection_summary_extra_round ==
    /\ pc = "reflection_summary"
    /\ trace' = Append(trace,
                    Event("reflection_summary", paragraph_index, reflection_i + 1))
    /\ summary_input' = Some(ParagraphObject.research.latest_summary)
    /\ \E resp \in Responses, content \in ReflectionTexts :
         LET out == TextStage(resp, content)
         IN  /\ completion' = Completion(resp, out)
             /\ IF out.raised
                THEN /\ Raise(out.e)
                     /\ UNCHANGED << state, reflection_i >>
                ELSE /\ state' = ReflectionSummaryNode_mutate_state(
                                     state, paragraph_index, out.value)
                     /\ reflection_i' = reflection_i + 1
                     /\ pc' = IF reflection_i + 1 <= config.max_reflections
                              THEN "reflection_query" ELSE "mark_completed"
                     /\ UNCHANGED << exc, thrown, failed >>
    /\ Pipeline
    /\ UNCHANGED << total_paragraphs, paragraph_index, paragraph, search_query,
                    final_report, files, results_returned, done_snapshot >>

\* _reflection_loop, lines 242-259: reflection_summary_node.mutate_state on
\* self.state, its result assigned to self.state, and the loop's next
\* iteration or exit.  When the stage returned a new session object and the
\* loop goes on, the local paragraph keeps referring to the section object of
\* the session it was read from.
reflection_summary ==
    /\ pc = "reflection_summary"
    /\ trace' = Append(trace,
                    Event("reflection_summary", paragraph_index, reflection_i + 1))
    /\ summary_input' = Some(ParagraphObject.research.latest_summary)
    /\ \E resp \in Responses, content \in ReflectionTexts :
         LET out == TextStage(resp, content)
         IN  /\ completion' = Completion(resp, out)
             /\ IF out.raised
                THEN /\ Raise(out.e)
                     /\ UNCHANGED << state, reflection_i, paragraph >>
                ELSE /\ state' = ReflectionSummaryNode_mutate_state(
                                     state, paragraph_index, out.value)
                     /\ reflection_i' = reflection_i + 1
                     /\ paragraph' =
                            IF copying /\ reflection_i + 1 < config.max_reflections
                            THEN Some(ParagraphObject) ELSE Unset
                     /\ pc' = IF reflection_i + 1 < config.max_reflections
                              THEN "reflection_query" ELSE "mark_completed"
                     /\ UNCHANGED << exc, thrown, failed >>
    /\ Pipeline
    /\ UNCHANGED << total_paragraphs, paragraph_index, search_query,
                    final_report, files, results_returned, done_snapshot >>

\* mark_completed marking every section of the session completed.
mark_completed_every_section ==
    /\ pc = "mark_completed"
    /\ state' = [state EXCEPT !.paragraphs =
                     [k \in 1..Len(@) |->
                         [@[k] EXCEPT !.research = research_mark_completed(@)]]]
    /\ trace' = Append(trace, Event("mark_completed", paragraph_index, 0))
    /\ done_snapshot' = Append(done_snapshot,
                               state'.paragraphs[paragraph_index + 1])
    /\ summary_input' = Unset
    /\ IF driver = "streamlit"
       THEN /\ pc' = "update_section"
            /\ UNCHANGED paragraph_index
       ELSE IF paragraph_index + 1 < total_paragraphs
            THEN /\ paragraph_index' = paragraph_index + 1
                 /\ pc' = "first_search_query"
            ELSE /\ pc' = "generate_final_report"
                 /\ UNCHANGED paragraph_index
    /\ Pipeline
    /\ UNCHANGED << total_paragraphs, reflection_i, paragraph, search_query,
                    final_report, exc, files, thrown, failed, results_returned,
                    completion >>

\* mark_completed with the loop moving on without marking the section.
mark_completed_skipped ==
    /\ pc = "mark_completed"
    /\ IF paragraph_index + 1 < total_paragraphs
       THEN /\ paragraph_index' = paragraph_index + 1
            /\ pc' = "first_search_query"
       ELSE /\ pc' = "generate_final_report"
            /\ UNCHANGED paragraph_index
    /\ Pipeline
    /\ UNCHANGED << state, total_paragraphs, reflection_i, paragraph,
                    search_query, final_report, exc, files, trace, thrown,
                    failed, results_returned, done_snapshot, completion,
                    summary_input >>

\* _process_paragraphs, lines 142-146 (execute_research, lines 389-390): mark
\* the section completed, then the loop's next iteration, or final assembly.
mark_completed ==
    /\ pc = "mark_completed"
    /\ state' = [state EXCEPT !.paragraphs[paragraph_index + 1].research =
                     research_mark_completed(@)]
    /\ trace' = Append(trace, Event("mark_completed", paragraph_index, 0))
    /\ done_snapshot' = Append(done_snapshot,
                               state'.paragraphs[paragraph_index + 1])
    /\ summary_input' = Unset
    /\ IF driver = "streamlit"
       THEN /\ pc' = "update_section"
            /\ UNCHANGED paragraph_index
       ELSE IF paragraph_index + 1 < total_paragraphs
            THEN /\ paragraph_index' = paragraph_index + 1
                 /\ pc' = "first_search_query"
            ELSE /\ pc' = "generate_final_report"
                 /\ UNCHANGED paragraph_index
    /\ Pipeline
    /\ UNCHANGED << total_paragraphs, reflection_i, paragraph, search_query,
                    final_report, exc, files, thrown, failed, results_returned,
                    completion >>

\* _generate_final_report, lines 265-271
ReportData(s) ==
    [k \in 1..Len(s.paragraphs) |->
        [title |-> s.paragraphs[k].title,
         paragraph_latest_state |-> s.paragraphs[k].research.latest_summary]]

\* generate_final_report without the fallback: a failure of the formatting
\* stage propagates to research().
generate_final_report_no_fallback ==
    /\ pc = "generate_final_report"
    /\ trace' = Append(trace, Event("report_formatting", -1, 0))
    /\ \E resp \in Responses, content \in LLMTexts :
         LET out == TextStage(resp, content)
         IN  /\ completion' = Completion(resp, out)
             /\ IF out.raised
                THEN /\ Raise(out.e)
                     /\ UNCHANGED << state, final_report >>
                ELSE /\ state' = state_mark_completed(
                                 [state EXCEPT !.final_report = Some(out.value)])
                     /\ final_report' = out.value
                     /\ pc' = IF save_report THEN "save_report" ELSE "returned"
                     /\ UNCHANGED << exc, thrown, failed >>
    /\ Pipeline
    /\ UNCHANGED << total_paragraphs, paragraph_index, reflection_i, paragraph,
                    search_query, files, results_returned, done_snapshot,
                    summary_input >>

\* _generate_final_report: format (or fall back), assign final_report, mark the
\* session completed; then the driver saves or returns.
generate_final_report ==
    /\ pc = "generate_final_report"
    /\ \E resp \in Responses, content \in LLMTexts :
         LET out == TextStage(resp, content)
             report == IF out.raised
                       THEN format_report_manually(ReportData(state),
                                                   state.report_title)
                       ELSE out.value
             assigned == [state EXCEPT !.final_report = Some(report)]
         IN  /\ completion' = Completion(resp, out)
             /\ trace' = trace \o
                    << Event("report_formatting", -1, 0) >> \o
                    (IF out.raised
                     THEN << Event("format_report_manually", -1, 0) >>
                     ELSE << >>)
             /\ IF StateCanComplete(assigned)
                THEN /\ state' = state_mark_completed(assigned)
                     /\ final_report' = report
                     /\ pc' = IF save_report THEN "save_report" ELSE "returned"
                     /\ thrown' = IF out.raised THEN out.e ELSE thrown
                     /\ failed' = IF out.raised
                                  THEN Event("report_formatting", -1, 0)
                                  ELSE failed
                     /\ UNCHANGED exc
                ELSE /\ state' = assigned
                     /\ Raise([type |-> "InvalidStateTransition",
                               reason |-> "final_report_unset"])
                     /\ UNCHANGED final_report
    /\ Pipeline
    /\ UNCHANGED << total_paragraphs, paragraph_index, reflection_i, paragraph,
                    search_query, files, results_returned, done_snapshot,
                    summary_input >>

\* _save_report writing the state file whatever the configuration says.
save_report_file_always_state ==
    /\ pc = "save_report"
    /\ \E timestamp \in Timestamps :
         LET fragment == query_safe(state.query)
         IN  files' =
                [report |-> Some(final_report),
                 report_name |-> Some(FileName("deep_search_report_", fragment,
                                               timestamp, ".md")),
                 state |-> Some(Serialize(state)),
                 state_name |-> Some(FileName("state_", fragment,
                                              timestamp, ".json"))]
    /\ trace' = trace \o << Event("save_report", -1, 0),
                            Event("save_state_file", -1, 0) >>
    /\ pc' = "returned"
    /\ Pipeline
    /\ UNCHANGED << state, total_paragraphs, paragraph_index, reflection_i,
                    paragraph, search_query, final_report, exc, thrown, failed,
                    results_returned, done_snapshot, completion,
                    summary_input >>

\* _save_report(final_report), called by the driver; then the driver returns.
\* The timestamp is taken once and used in both file names.
save_report_file ==
    /\ pc = "save_report"
    /\ \E timestamp \in Timestamps :
         LET fragment == query_safe(state.query)
         IN  files' =
                [report |-> Some(final_report),
                 report_name |-> Some(FileName("deep_search_report_", fragment,
                                               timestamp, ".md")),
                 state |-> IF config.save_intermediate_states
                           THEN Some(Serialize(state)) ELSE Unset,
                 state_name |-> IF config.save_intermediate_states
                                THEN Some(FileName("state_", fragment,
                                                   timestamp, ".json"))
                                ELSE Unset]
    /\ trace' = trace \o << Event("save_report", -1, 0) >> \o
                    (IF config.save_intermediate_states
                     THEN << Event("save_state_file", -1, 0) >> ELSE << >>)
    /\ pc' = "returned"
    /\ Pipeline
    /\ UNCHANGED << state, total_paragraphs, paragraph_index, reflection_i,
                    paragraph, search_query, final_report, exc, thrown, failed,
                    results_returned, done_snapshot, completion,
                    summary_input >>

\* update_status_info with execute_research going from the initial summary of
\* a section straight to its completion mark.
update_status_info_skipping_reflection ==
    /\ pc \in UpdatePoints
    /\ api' = Call("get_progress_summary", FALSE,
                   state_get_progress_summary(state))
    /\ pc' = CASE pc = "update_init" -> "generate_report_structure"
               [] pc = "update_outline" -> "first_search_query"
               [] pc = "update_initial" -> "mark_completed"
               [] pc = "update_section" ->
                      IF paragraph_index + 1 < total_paragraphs
                      THEN "first_search_query" ELSE "generate_final_report"
    /\ paragraph_index' =
           IF pc = "update_section" /\ paragraph_index + 1 < total_paragraphs
           THEN paragraph_index + 1 ELSE paragraph_index
    /\ UNCHANGED fixed
    /\ UNCHANGED << state, total_paragraphs, reflection_i, paragraph,
                    search_query, final_report, exc, files, trace, thrown,
                    failed, results_returned, done_snapshot, completion,
                    summary_input >>

\* update_status_info(container) as called by execute_research between the
\* steps of the pipeline (lines 361, 371, 387, 398): shows the agent's
\* progress summary; then execute_research goes on.
update_status_info ==
    /\ pc \in UpdatePoints
    /\ api' = Call("get_progress_summary", FALSE,
                   state_get_progress_summary(state))
    /\ pc' = CASE pc = "update_init" -> "generate_report_structure"
               [] pc = "update_outline" -> "first_search_query"
               [] pc = "update_initial" -> LoopEntry
               [] pc = "update_section" ->
                      IF paragraph_index + 1 < total_paragraphs
                      THEN "first_search_query" ELSE "generate_final_report"
    /\ paragraph_index' =
           IF pc = "update_section" /\ paragraph_index + 1 < total_paragraphs
           THEN paragraph_index + 1 ELSE paragraph_index
    /\ UNCHANGED fixed
    /\ UNCHANGED << state, total_paragraphs, reflection_i, paragraph,
                    search_query, final_report, exc, files, trace, thrown,
                    failed, results_returned, done_snapshot, completion,
                    summary_input >>

\* What a call of the agent made while no pipeline runs leaves alone.
run == << config, pc, driver, query, save_report, total_paragraphs,
          paragraph_index, reflection_i, paragraph, search_query, final_report,
          exc, files, copying, trace, thrown, failed, results_returned,
          done_snapshot, completion, summary_input >>

\* get_progress_summary reporting on the session of the latest save_state.
get_progress_summary_of_saved ==
    /\ pc \in AtRest
    /\ api' = Call("get_progress_summary", FALSE,
                   state_get_progress_summary(
                       IF saved = Unset THEN state ELSE saved[1]))
    /\ UNCHANGED << state, disk, saved >>
    /\ UNCHANGED run

\* get_progress_summary(): the progress summary of self.state.
get_progress_summary ==
    /\ pc \in AtRest
    /\ api' = Call("get_progress_summary", FALSE,
                   state_get_progress_summary(state))
    /\ UNCHANGED << state, disk, saved >>
    /\ UNCHANGED run

\* save_state(filepath): self.state.save_to_file(filepath)
save_state ==
    /\ pc \in AtRest
    /\ disk' = Some(Serialize(state))
    /\ saved' = Some(state)
    /\ api' = Call("save_state", FALSE, NoValue)
    /\ UNCHANGED state
    /\ UNCHANGED run

\* The files a client may give load_state: the one save_state wrote, a
\* damaged version of it, or something that is not a document.
Loadable ==
    { NotJson } \cup
    (IF disk = Unset THEN {} ELSE { disk[1] } \cup Damaged(disk[1]))

\* load_state installing what it could read of a file it rejects.
load_state_installing ==
    /\ pc \in AtRest
    /\ \E f \in Loadable :
         LET r == load_from_file(f)
         IN  /\ state' = r.value
             /\ api' = Call("load_state", r.raised, r.e)
    /\ UNCHANGED << disk, saved >>
    /\ UNCHANGED run

\* load_state leaving self.state as it is.
load_state_not_assigning ==
    /\ pc \in AtRest
    /\ \E f \in Loadable :
         LET r == load_from_file(f)
         IN  /\ UNCHANGED state
             /\ api' = Call("load_state", r.raised, r.e)
    /\ UNCHANGED << disk, saved >>
    /\ UNCHANGED run

\* load_state(filepath): self.state = State.load_from_file(filepath); when
\* load_from_file raises, the assignment does not happen.
load_state ==
    /\ pc \in AtRest
    /\ \E f \in Loadable :
         LET r == load_from_file(f)
         IN  IF r.raised
             THEN /\ UNCHANGED state
                  /\ api' = Call("load_state", TRUE, r.e)
             ELSE /\ state' = r.value
                  /\ api' = Call("load_state", FALSE, r.e)
    /\ UNCHANGED << disk, saved >>
    /\ UNCHANGED run

\* new_agent = DeepSearchAgent(config), constructed after a state was saved,
\* to load it (state_management_example).
new_agent ==
    /\ pc \in Idle \ { "idle" }
    /\ disk # Unset
    /\ state' = NewState
    /\ pc' = "constructed"
    /\ api' = NoCall
    /\ UNCHANGED << config, driver, query, save_report, total_paragraphs,
                    paragraph_index, reflection_i, paragraph, search_query,
                    final_report, exc, files, disk, copying, trace, thrown,
                    failed, results_returned, done_snapshot, completion,
                    summary_input, saved >>

\* load_config(), lines 96-103: the configuration read from the environment
\* is validated, and a rejected one raises.
load_config ==
    /\ pc = "load_config"
    /\ IF validate(config)
       THEN /\ pc' = "config_loaded"
            /\ api' = Call("load_config", FALSE, NoValue)
            /\ UNCHANGED exc
       ELSE /\ pc' = "raised"
            /\ api' = Call("load_config", TRUE, NoValue)
            /\ exc' = ConfigError
    /\ UNCHANGED << state, config, driver, query, save_report, total_paragraphs,
                    paragraph_index, reflection_i, paragraph, search_query,
                    final_report, files, disk, copying, trace, thrown, failed,
                    results_returned, done_snapshot, completion,
                    summary_input, saved >>

\* DeepSearchAgent.__init__(config), lines 35-50, on a loaded configuration:
\* the client is selected, then the session is created.
agent_init ==
    /\ pc = "config_loaded"
    /\ \E env \in ApiKeys :
         LET llm_client == initialize_llm(config, env)
         IN  IF llm_client.raised
             THEN /\ pc' = "raised"
                  /\ exc' = llm_client.e
                  /\ api' = Call("DeepSearchAgent", TRUE, NoValue)
                  /\ UNCHANGED state
             ELSE /\ pc' = "idle"
                  /\ state' = NewState
                  /\ api' = Call("DeepSearchAgent", FALSE,
                                 [llm |-> llm_client.llm,
                                  api_key |-> llm_client.api_key])
                  /\ UNCHANGED exc
    /\ UNCHANGED << config, driver, query, save_report, total_paragraphs,
                    paragraph_index, reflection_i, paragraph, search_query,
                    final_report, files, disk, copying, trace, thrown, failed,
                    results_returned, done_snapshot, completion,
                    summary_input, saved >>

Next ==
    \/ \E q \in Queries, sr \in BOOLEAN : research(q, sr)
    \/ generate_report_structure
    \/ first_search_query
    \/ first_search
    \/ first_summary
    \/ reflection_query
    \/ reflection_search
    \/ reflection_summary
    \/ mark_completed
    \/ generate_final_report
    \/ save_report_file

\* One research() call on a freshly constructed agent.
Spec == Init /\ [][Next]_vars

\* The same, every step that can be taken eventually being taken: the
\* collaborators return.
SpecFair == Init /\ [][Next]_vars /\ WF_vars(Next)

NextReuse ==
    \/ Next
    \/ \E q \in Queries, sr \in BOOLEAN : research_again(q, sr)

\* Any number of research() calls on one agent.
SpecReuse == Init /\ [][NextReuse]_vars

NextDrivers ==
    \/ Next
    \/ \E q \in Queries : execute_research(q)
    \/ update_status_info

\* One run of the pipeline, driven by research() or by execute_research.
SpecDrivers == Init /\ [][NextDrivers]_vars

NextPersist ==
    \/ NextDrivers
    \/ get_progress_summary
    \/ save_state
    \/ load_state
    \/ new_agent

\* One run of the pipeline, then any number of save_state, load_state and
\* get_progress_summary calls, on the agent or on a second one.
SpecPersist == Init /\ [][NextPersist]_vars

\* Stages that update the session in place or return a new session object,
\* with AliasReflections reflection rounds.
InitAlias == InitWith({ AliasReflections }, BOOLEAN)
SpecAlias == InitAlias /\ [][Next]_vars

\* A configuration read from the environment: any provider value and any
\* keys; the agent is constructed from it if load_config accepts it.
InitConfig ==
    /\ state = NewState
    /\ config \in [default_llm_provider : Providers,
                   deepseek_api_key : ApiKeys,
                   openai_api_key : ApiKeys,
                   tavily_api_key : ApiKeys,
                   max_reflections : { MaxReflections },
                   max_search_results : { MaxResults },
                   save_intermediate_states : { TRUE }]
    /\ copying = FALSE
    /\ pc = "load_config"
    /\ driver = "none"
    /\ query = EmptyText
    /\ save_report = FALSE
    /\ total_paragraphs = 0
    /\ paragraph_index = 0
    /\ reflection_i = 0
    /\ paragraph = Unset
    /\ search_query = EmptyText
    /\ final_report = EmptyText
    /\ exc = NoExc
    /\ files = NoFiles
    /\ disk = Unset
    /\ trace = << >>
    /\ thrown = NoExc
    /\ failed = NoEvent
    /\ results_returned = << >>
    /\ done_snapshot = << >>
    /\ completion = NoCompletion
    /\ summary_input = Unset
    /\ api = NoCall
    /\ saved = Unset

NextConfig ==
    \/ load_config
    \/ agent_init
    \/ Next

SpecConfig == InitConfig /\ [][NextConfig]_vars

\* =================================================================== claims
Paragraphs == 1..Len(state.paragraphs)
ResearchOf(k) == state.paragraphs[k].research

\* Positions of the history of calls holding a given call.
Positions(op, i, r) == { p \in 1..Len(trace) : trace[p] = Event(op, i, r) }
Before(op, i, r, q) == \E p \in 1..(q - 1) : trace[p] = Event(op, i, r)

\* C1: whenever the session is Completed, its final report is set and is not
\* the empty text.
C1_CompletedHasReport ==
    state.status = "Completed" =>
        /\ state.final_report # Unset
        /\ state.final_report[1] # EmptyText

\* C2: a completed section has run exactly max_reflections reflection rounds
\* and has a non-empty latest summary.
C2_CompletedSection ==
    \A k \in Paragraphs :
        ResearchOf(k).is_completed =>
            /\ ResearchOf(k).reflection_iteration = config.max_reflections
            /\ ResearchOf(k).latest_summary # EmptyText

IsPrefix(a, b) == Len(a) <= Len(b) /\ SubSeq(b, 1, Len(a)) = a

\* The call at position q of the history comes after the calls the order puts
\* before it.
OrderedAt(q) ==
    LET ev == trace[q]
    IN  /\ ev.i >= 0 =>
            \A j \in 0..(ev.i - 1) : Before("mark_completed", j, 0, q)
        /\ ev.op = "search" /\ ev.r = 0 =>
            Before("first_search_query", ev.i, 0, q)
        /\ ev.op = "first_summary" => Before("search", ev.i, 0, q)
        /\ ev.op = "reflection_query" /\ ev.r = 1 =>
            Before("first_summary", ev.i, 0, q)
        /\ ev.op = "reflection_query" /\ ev.r > 1 =>
            Before("reflection_summary", ev.i, ev.r - 1, q)
        /\ ev.op = "search" /\ ev.r > 0 =>
            Before("reflection_query", ev.i, ev.r, q)
        /\ ev.op = "reflection_summary" => Before("search", ev.i, ev.r, q)
        /\ ev.op = "mark_completed" =>
            /\ Before("first_summary", ev.i, 0, q)
            /\ \A r \in 1..config.max_reflections :
                   Before("reflection_summary", ev.i, r, q)
        /\ ev.op = "report_formatting" =>
            \A j \in 0..(total_paragraphs - 1) :
                Before("mark_completed", j, 0, q)

\* The calls a step adds to the history: the history of a run only grows, and
\* a new run starts a new history.
NewCalls ==
    IF IsPrefix(trace, trace')
    THEN (Len(trace) + 1)..Len(trace')
    ELSE 1..Len(trace')

C3_Ordered == \A q \in NewCalls : OrderedAt(q)'

C3_Completed ==
    /\ pc \in { "generate_final_report", "save_report", "returned" } =>
        /\ Len(state.paragraphs) = total_paragraphs
        /\ \A k \in Paragraphs : ResearchOf(k).is_completed
    /\ pc \notin Idle \cup { "generate_report_structure" } =>
        \A k \in Paragraphs :
            ResearchOf(k).is_completed <=>
                Positions("mark_completed", k - 1, 0) # {}

Searches(i) == { p \in 1..Len(trace) : trace[p].op = "search" /\ trace[p].i = i }

C4_HistoryLength ==
    \A k \in Paragraphs :
        /\ Len(ResearchOf(k).search_history) = results_returned[k]
        /\ ResearchOf(k).is_completed =>
               Cardinality(Searches(k - 1)) = 1 + config.max_reflections

C4_AppendOnly ==
    \A k \in Paragraphs :
        /\ k <= Len(state'.paragraphs)
        /\ IsPrefix(ResearchOf(k).search_history,
                    state'.paragraphs[k].research.search_history)

C6_InitialSummaryFailure ==
    failed.op = "first_summary" =>
        LET k == failed.i
        IN  /\ pc = "raised"
            /\ exc # NoExc
            /\ trace[Len(trace)] = failed
            /\ \A q \in 1..Len(trace) :
                /\ trace[q].i <= k
                /\ trace[q].i = k =>
                       trace[q].op \notin { "reflection_query",
                                            "reflection_summary",
                                            "mark_completed" }
                /\ trace[q].op \notin { "report_formatting",
                                        "format_report_manually",
                                        "save_report", "save_state_file" }
            /\ state.status # "Completed"
            /\ ~ ResearchOf(k + 1).is_completed
            /\ ResearchOf(k + 1).reflection_iteration = 0
            /\ \A j \in (k + 2)..Len(state.paragraphs) :
                   state.paragraphs[j] = NewParagraph(j)
            /\ Len(done_snapshot) = k
            /\ \A j \in 1..k :
                /\ state.paragraphs[j] = done_snapshot[j]
                /\ ResearchOf(j).is_completed

C6_Witness ==
    /\ failed.op = "first_summary"
    /\ failed.i = 1
    /\ pc = "raised"

\* Whether text t occurs in text s at position p.
OccursAt(t, s, p) ==
    /\ p + Len(t) - 1 <= Len(s)
    /\ SubSeq(s, p, p + Len(t) - 1) = t

\* Whether the texts of parts occur in s one after the other, from position
\* from on.
RECURSIVE ContainsInOrder(_, _, _)
ContainsInOrder(s, parts, from) ==
    IF parts = << >> THEN TRUE
    ELSE LET t == Head(parts)
             ps == { p \in from..(Len(s) + 1) : OccursAt(t, s, p) }
         IN  /\ ps # {}
             /\ ContainsInOrder(s, Tail(parts),
                    (CHOOSE p \in ps : \A q \in ps : p <= q) + Len(t))

\* Title and summary of every section, in order.
RECURSIVE TitlesAndSummaries(_)
TitlesAndSummaries(data) ==
    IF data = << >> THEN << >>
    ELSE << Head(data).title, Head(data).paragraph_latest_state >>
         \o TitlesAndSummaries(Tail(data))

SectionData(s) ==
    [k \in 1..Len(s.paragraphs) |->
        [title |-> s.paragraphs[k].title,
         paragraph_latest_state |-> s.paragraphs[k].research.latest_summary]]

\* Section data of up to MaxSections sections, summaries possibly empty.
ReportDataSpace ==
    UNION { [1..n -> [title : { SectionTitle(k) : k \in 1..MaxSections },
                      paragraph_latest_state :
                          LLMTexts \cup ReflectionTexts \cup { EmptyText }]]
            : n \in 0..MaxSections }

\* C7: when the formatting stage fails, final assembly sets a non-empty final
\* report that contains every section's title and latest summary in outline
\* order, the session is Completed and research() does not raise; the
\* fallback is total: for any section data (no sections, empty summaries) it
\* yields a non-empty report holding the titles and summaries in order.
C7_FallbackReport ==
    /\ failed.op = "report_formatting" =>
        /\ pc \in { "save_report", "returned" }
        /\ exc = NoExc
        /\ state.status = "Completed"
        /\ state.final_report = Some(final_report)
        /\ final_report # EmptyText
        /\ ContainsInOrder(final_report,
                           << state.report_title >>
                               \o TitlesAndSummaries(SectionData(state)), 1)
    /\ pc = "idle" =>
        \A data \in ReportDataSpace, q \in Queries :
            LET report == format_report_manually(data, ReportTitle(q))
            IN  /\ report # EmptyText
                /\ ContainsInOrder(report,
                       << ReportTitle(q) >> \o TitlesAndSummaries(data), 1)

C7_Witness ==
    /\ failed.op = "report_formatting"
    /\ pc = "returned"
    /\ Len(state.paragraphs) = 2
    /\ ResearchOf(1).latest_summary = EmptyText
    /\ ResearchOf(2).latest_summary # EmptyText

NoDuplicates(seq) ==
    Cardinality({ seq[p] : p \in 1..Len(seq) }) = Len(seq)

\* C8 (as stated): the exception research() raises carries the stage that
\* failed and the index of the section being processed.
C8_CarriesStageAndIndex ==
    pc = "raised" =>
        /\ { "stage", "index" } \subseteq DOMAIN exc
        /\ exc.stage = failed.op
        /\ exc.index = failed.i

\* C8 (amended): a failure that aborts a run is re-raised to the caller of
\* research() unchanged (the exception the failing stage threw, with no stage
\* or section index attached); no stage or search is retried: every call is
\* made at most once per section phase or round, and the failing call is the
\* last one of the run.
C8_ReraisedUnchanged ==
    /\ pc = "raised" =>
        /\ exc = thrown
        /\ exc # NoExc
        /\ DOMAIN exc = { "type", "reason" }
        /\ trace[Len(trace)] = failed
    /\ failed # NoEvent /\ failed.op # "report_formatting" => pc = "raised"
    /\ NoDuplicates(trace)

C8_Witness ==
    /\ pc = "raised"
    /\ failed = Event("reflection_summary", 1, 1)

\* C9: the session handed to the outline stage of every research() call is
\* in status Created with no sections; after the outline stage the sections
\* of the run are the outline's, in its order.
C9_FreshSessionPerRun ==
    /\ pc = "generate_report_structure" =>
        /\ state.status = "Created"
        /\ state.paragraphs = << >>
    /\ pc \notin Idle \cup { "generate_report_structure" } =>
        /\ Len(state.paragraphs) = total_paragraphs
        /\ \A k \in Paragraphs : state.paragraphs[k].title = SectionTitle(k)

StatusRank(status) ==
    CASE status = "Created" -> 0
      [] status = "InProgress" -> 1
      [] status = "Completed" -> 2

\* C10: the session's status never moves backwards and final_report is
\* assigned only while it is unset (exactly once, at completion).
C10_MonotonicStatus ==
    [][ /\ StatusRank(state'.status) >= StatusRank(state.status)
        /\ state'.final_report # state.final_report =>
               state.final_report = Unset ]_vars

\* Calls of the history made for section i (0-based) after position p.
CallsAfter(i, p) == { q \in (p + 1)..Len(trace) : trace[q].i = i }

C11_CompletedOnce ==
    \A k \in Paragraphs :
        LET marks == Positions("mark_completed", k - 1, 0)
        IN  /\ Cardinality(marks) <= 1
            /\ ResearchOf(k).is_completed <=> marks # {}
            /\ \A p \in marks : CallsAfter(k - 1, p) = {}

C11_CompletedFrozen ==
    \A k \in Paragraphs :
        ResearchOf(k).is_completed =>
            /\ k <= Len(state'.paragraphs)
            /\ state'.paragraphs[k] = state.paragraphs[k]

\* C11: under research() and under execute_research, a section is marked
\* completed at most once, its completed flag is true exactly when it was
\* marked, no call of the pipeline is made for it afterwards, and from then on
\* the section (search history, latest summary, reflection count, completed
\* flag) never changes.
C11_CompletedIsFinal == [] C11_CompletedOnce /\ [][C11_CompletedFrozen]_vars

C11_Witness ==
    /\ driver = "streamlit"
    /\ pc = "returned"
    /\ Len(state.paragraphs) = 2
    /\ ResearchOf(1).is_completed
    /\ Len(ResearchOf(2).search_history) > 0

\* Positions of the driver inside the processing of a section: initial phase,
\* reflection rounds, marking it completed.
SectionPoints ==
    { "first_search_query", "first_search", "first_summary", "update_initial",
      "reflection_query", "reflection_search", "reflection_summary",
      "mark_completed" }

C12_Frame ==
    pc \in SectionPoints =>
        /\ Len(state'.paragraphs) = Len(state.paragraphs)
        /\ \A j \in Paragraphs :
              j # paragraph_index + 1 =>
                  state'.paragraphs[j] = state.paragraphs[j]
        /\ state'.query = state.query
        /\ state'.report_title = state.report_title
        /\ state'.final_report = state.final_report

\* C12: a step taken while section i is being processed (initial phase, any
\* reflection round, marking it completed) leaves every other section (title,
\* expected content, search history, reflection count, latest summary,
\* completed flag) and the session's query, report title and final report
\* unchanged, and neither adds nor removes a section.
C12_OnlyAddressedSection == [][C12_Frame]_vars

C12_Witness ==
    /\ pc = "mark_completed"
    /\ paragraph_index = 0
    /\ Len(state.paragraphs) = 2
    /\ ResearchOf(1).reflection_iteration = 1
    /\ Len(ResearchOf(1).search_history) = 4
    /\ state.paragraphs[2] = NewParagraph(2)

C14_DamagedRejected ==
    \A f \in Loadable :
        (disk = Unset \/ f # disk[1]) =>
            /\ load_from_file(f).raised
            /\ load_from_file(f).e = CorruptState

\* A step that is a load_state call which raised leaves the session alone.
C14_FailedLoadFrame ==
    api'.op = "load_state" /\ api'.raised =>
        /\ state' = state
        /\ api'.value = CorruptState

\* C14: load_state on a file that is malformed or lacks a required field
\* raises CorruptState and leaves the agent's session exactly as it was; the
\* session is replaced only by a load that returned.
C14_FailedLoadKeepsSession ==
    [] C14_DamagedRejected /\ [][C14_FailedLoadFrame]_vars

C14_Witness ==
    /\ api.op = "load_state"
    /\ api.raised
    /\ pc = "returned"
    /\ disk # Unset
    /\ state.status = "Completed"
    /\ Len(state.paragraphs) = 2

\* The progress of a session, counted from its sections.
ExpectedProgress(s) ==
    LET done == { k \in 1..Len(s.paragraphs) :
                     s.paragraphs[k].research.is_completed }
    IN  [total_paragraphs |-> Len(s.paragraphs),
         completed_paragraphs |-> Cardinality(done),
         progress_percentage |->
             IF Len(s.paragraphs) = 0 THEN 0
             ELSE (100 * Cardinality(done)) \div Len(s.paragraphs),
         is_completed |-> s.status = "Completed"]

\* A step that is a get_progress_summary call.
C15_Read ==
    api'.op = "get_progress_summary" =>
        /\ ~ api'.raised
        /\ state' = state
        /\ disk' = disk
        /\ api'.value = ExpectedProgress(state)
        /\ api.op = "get_progress_summary" => api'.value = api.value

Count(ops) == Cardinality({ p \in 1..Len(trace) : trace[p].op \in ops })

\* What a run that ended has done.
C16_Outcome ==
    /\ pc = "raised" =>
        /\ failed # NoEvent
        /\ failed.op \notin { "report_formatting", "format_report_manually" }
    /\ pc = "returned" =>
        /\ Count({ "report_structure" }) = 1
        /\ Count({ "search" })
               = total_paragraphs * (1 + config.max_reflections)
        /\ Count({ "first_summary", "reflection_summary" })
               = total_paragraphs * (1 + config.max_reflections)
        /\ Count({ "first_summary" }) = total_paragraphs
        /\ Count({ "report_formatting" }) = 1
        /\ state.status = "Completed"
        /\ state.final_report = Some(final_report)

\* C16: when every collaborator call returns, a research() call ends: it
\* raises only if a stage other than final assembly failed, and otherwise
\* returns, having made one outline call, sections x (1 + max_reflections)
\* searches and as many summary mutations, and one final assembly, with the
\* session Completed and its final report the value returned.
C16_Terminates ==
    /\ [] C16_Outcome
    /\ (pc = "generate_report_structure") ~> (pc \in { "returned", "raised" })

C16_Witness ==
    /\ pc = "returned"
    /\ failed = NoEvent
    /\ total_paragraphs = 2
    /\ config.max_reflections = 1
    /\ Count({ "search" }) = 4
    /\ ~ save_report

\* C17: every call of the language-model client's invoke either raised (on a
\* provider error and on a response with no choices or no message) or
\* returned a non-empty completion.
C17_InvokeNeverEmpty ==
    completion.resp # "none" =>
        /\ completion.resp \in { "error", "no_choices" } => completion.raised
        /\ ~ completion.raised => completion.value # EmptyText

\* Texts of up to MaxQueryLen characters.
ShortTexts == UNION { [1..n -> Chars] : n \in 0..MaxQueryLen }

\* The characters of q the filename keeps, blanks written as underscores.
KeptOf(q) ==
    LET kept == SelectSeq(q, LAMBDA c : c \in Alnum \cup { " ", "-", "_" })
    IN  [k \in 1..Len(kept) |-> IF kept[k] = " " THEN "_" ELSE kept[k]]

\* What the claim says of the fragment computed for query q: at most 30
\* characters, alphanumerics, '-' and '_' only, and the kept characters of q
\* in their order, cut at 30 (and without the blanks that ended them).
GoodFragment(fragment, q) ==
    /\ Len(fragment) <= 30
    /\ \A k \in 1..Len(fragment) : fragment[k] \in Alnum \cup { "-", "_" }
    /\ IsPrefix(fragment, KeptOf(q))
    /\ \/ Len(fragment) = 30
       \/ \A k \in (Len(fragment) + 1)..Len(KeptOf(q)) : KeptOf(q)[k] = "_"

\* C18: the query-derived fragment of the report's filename has at most 30
\* characters, all alphanumeric, '-' or '_', and is the kept characters of the
\* session query with blanks replaced by '_', truncated; the state file
\* written by the same save carries the same fragment and the same timestamp,
\* and is written exactly when save_intermediate_states is set.  The fragment
\* computed for any short text has the same properties.
C18_FilenameFragment ==
    /\ files.report_name # Unset =>
        /\ GoodFragment(files.report_name[1].fragment, state.query)
        /\ files.state_name # Unset <=> config.save_intermediate_states
        /\ files.state_name # Unset =>
            /\ files.state_name[1].fragment = files.report_name[1].fragment
            /\ files.state_name[1].timestamp = files.report_name[1].timestamp
    /\ pc = "idle" => \A q \in ShortTexts : GoodFragment(query_safe(q), q)

C18_Witness ==
    /\ pc = "returned"
    /\ state.query = LongQuery
    /\ files.report_name # Unset
    /\ files.state_name # Unset
    /\ Len(files.report_name[1].fragment) = 30
    /\ Len(KeptOf(state.query)) > 30

\* A step of a reflection round that calls a stage: the stage is given the
\* summary the session holds for the section at the call, and the summary
\* stage leaves its completion, and nothing else, as the section's summary.
C19_Step ==
    LET committed == state.paragraphs[paragraph_index + 1].research
        after == state'.paragraphs[paragraph_index + 1].research
    IN  /\ pc \in { "reflection_query", "reflection_summary" } =>
              summary_input' = Some(committed.latest_summary)
        /\ pc = "reflection_summary" /\ pc' \in SectionPoints =>
              /\ after.latest_summary = completion'.value
              /\ after.reflection_iteration = committed.reflection_iteration + 1

\* C19: in every reflection round, the latest summary given to the reflection
\* query stage and to the reflection summary stage is the one the session
\* holds for the section at that moment (the initial summary in round 1, the
\* summary of round r in round r+1), whether mutate_state updates the session
\* in place or returns a new session object; the summary stage's result
\* replaces the section's summary.
C19_CurrentSummary == [][C19_Step]_vars

SummaryOps == { "first_summary", "reflection_summary" }

\* Every summary call is made right after the search of its step, itself made
\* right after the query stage of the step; the results of every search made
\* so far are in the section's history; after a failure of a summary stage the
\* run has ended, the section is not completed and has counted no round for
\* the failed step, and its summary is empty if the initial summary failed.
C20_Order ==
    /\ \A q \in 1..Len(trace) :
        LET ev == trace[q]
        IN  ev.op \in SummaryOps =>
                /\ q > 2
                /\ trace[q - 1] = Event("search", ev.i, ev.r)
                /\ trace[q - 2] =
                       Event(IF ev.r = 0 THEN "first_search_query"
                             ELSE "reflection_query", ev.i, ev.r)
    /\ \A k \in Paragraphs :
        Len(ResearchOf(k).search_history) = results_returned[k]
    /\ failed.op \in SummaryOps =>
        /\ pc = "raised"
        /\ trace[Len(trace)] = failed
        /\ ~ ResearchOf(failed.i + 1).is_completed
        /\ Positions("mark_completed", failed.i, 0) = {}
        /\ failed.op = "first_summary" =>
            /\ ResearchOf(failed.i + 1).latest_summary = EmptyText
            /\ ResearchOf(failed.i + 1).reflection_iteration = 0
        /\ failed.op = "reflection_summary" =>
            ResearchOf(failed.i + 1).reflection_iteration = failed.r - 1

\* A step in which a summary stage fails leaves the session as it was.
C20_FailedSummaryFrame ==
    failed' # failed /\ failed'.op \in SummaryOps => state' = state

C21_RaisedNotCompleted ==
    pc = "raised" =>
        /\ state.status # "Completed"
        /\ ~ state_get_progress_summary(state).is_completed
        /\ state.final_report = Unset
        /\ Positions("report_formatting", -1, 0) = {}

CompletedSections(s) == state_get_progress_summary(s).completed_paragraphs
TotalSections(s) == state_get_progress_summary(s).total_paragraphs

C22_Bounds ==
    /\ 0 <= CompletedSections(state)
    /\ CompletedSections(state) <= TotalSections(state)
    /\ pc \notin Idle \cup { "generate_report_structure", "update_init" } =>
        TotalSections(state) = total_paragraphs
    /\ state.status = "Completed" =>
        CompletedSections(state) = TotalSections(state)

C22_Step ==
    /\ CompletedSections(state') >= CompletedSections(state)
    /\ pc = "mark_completed" =>
        CompletedSections(state') = CompletedSections(state) + 1
    /\ pc # "mark_completed" =>
        CompletedSections(state') = CompletedSections(state)
    /\ state'.status = "Completed" /\ state.status # "Completed" =>
        CompletedSections(state) = TotalSections(state)

\* C22: at every point of a run, under research() and under execute_research,
\* the number of completed sections is between 0 and the number of sections;
\* it never decreases, grows by exactly one when a section has finished its
\* reflection loop and is marked completed, and changes at no other step; the
\* session becomes Completed only when every section is completed.
C22_ProgressCount == [] C22_Bounds /\ [][C22_Step]_vars

C22_Witness ==
    /\ pc = "returned"
    /\ state.status = "Completed"
    /\ config.max_reflections = 1
    /\ CompletedSections(state) = 2
    /\ TotalSections(state) = 2

\* The state-changing calls of a run over n sections with m reflection rounds
\* each, in order, whichever driver makes them: the outline, then for each
\* section its initial query, search and summary, its rounds (query, search,
\* summary) and its completion mark.
CallsPerSection(m) == 3 + 3 * m + 1

ExpectedCall(p, m) ==
    IF p = 1 THEN Event("report_structure", -1, 0)
    ELSE LET i == (p - 2) \div CallsPerSection(m)
             o == (p - 2) % CallsPerSection(m)
         IN  CASE o = 0 -> Event("first_search_query", i, 0)
               [] o = 1 -> Event("search", i, 0)
               [] o = 2 -> Event("first_summary", i, 0)
               [] o = CallsPerSection(m) - 1 -> Event("mark_completed", i, 0)
               [] OTHER ->
                    LET r == ((o - 3) \div 3) + 1
                    IN  CASE (o - 3) % 3 = 0 -> Event("reflection_query", i, r)
                          [] (o - 3) % 3 = 1 -> Event("search", i, r)
                          [] OTHER -> Event("reflection_summary", i, r)

\* The calls of final assembly and saving: formatting, the manual formatting
\* if the formatting stage failed, the report file, the state file if
\* configured.
AssemblyCalls ==
    { << Event("report_formatting", -1, 0) >>,
      << Event("report_formatting", -1, 0),
         Event("format_report_manually", -1, 0) >> }

SavingCalls ==
    << Event("save_report", -1, 0) >> \o
    (IF config.save_intermediate_states
     THEN << Event("save_state_file", -1, 0) >> ELSE << >>)

SectionCallsEnd == 1 + total_paragraphs * CallsPerSection(config.max_reflections)

C23_SameCalls ==
    /\ \A p \in 1..Len(trace) :
        p <= SectionCallsEnd \/ p = 1 =>
            trace[p] = ExpectedCall(p, config.max_reflections)
    /\ Len(trace) > SectionCallsEnd /\ Len(trace) > 1 =>
        LET tail == SubSeq(trace, SectionCallsEnd + 1, Len(trace))
        IN  \E a \in AssemblyCalls :
                \/ tail = a
                \/ save_report /\ tail = a \o SavingCalls
    /\ pc = "returned" /\ save_report =>
        /\ Len(trace) > SectionCallsEnd
        /\ \E a \in AssemblyCalls :
            SubSeq(trace, SectionCallsEnd + 1, Len(trace)) = a \o SavingCalls
        /\ state.status = "Completed"
        /\ state.query = query
        /\ Len(state.paragraphs) = total_paragraphs
        /\ \A k \in Paragraphs :
            /\ ResearchOf(k).is_completed
            /\ ResearchOf(k).reflection_iteration = config.max_reflections
            /\ Len(ResearchOf(k).search_history) = results_returned[k]
        /\ state.final_report = Some(final_report)
        /\ files.report = Some(final_report)
        /\ files.state =
               IF config.save_intermediate_states
               THEN Some(Serialize(state)) ELSE Unset
    /\ pc = "raised" => driver = "research" /\ exc = thrown /\ exc # NoExc
    /\ pc = "error_shown" =>
        driver = "streamlit" /\ exc = NoExc /\ thrown # NoExc
    /\ pc \in { "raised", "error_shown" } =>
        /\ failed = trace[Len(trace)]
        /\ files = NoFiles

\* The steps execute_research makes between the calls of the pipeline only
\* read the session.
C23_DisplayOnly ==
    pc \in UpdatePoints =>
        /\ state' = state
        /\ trace' = trace
        /\ files' = files
        /\ final_report' = final_report

\* C23: execute_research and research(query, save_report=True) make the same
\* sequence of state-changing calls on the agent's session (outline; for each
\* section in order initial search and summary, reflection rounds, completion
\* mark; final assembly; saving) and end a successful run in a session
\* described by the same conditions; what execute_research does in between
\* only reads the session; on a failure both stop at the failing call,
\* research() re-raising the exception and execute_research showing it.
C23_DriversAgree == [] C23_SameCalls /\ [][C23_DisplayOnly]_vars

C23_Witness ==
    /\ pc = "returned"
    /\ driver = "streamlit"
    /\ total_paragraphs = 2
    /\ config.max_reflections = 1
    /\ config.save_intermediate_states
    /\ Len(trace) = SectionCallsEnd + 3

C24_Files ==
    /\ files.report # Unset =>
        /\ save_report
        /\ state.status = "Completed"
        /\ state.final_report = files.report
        /\ Positions("save_report", -1, 0) # {}
    /\ files.state # Unset =>
        /\ files.report # Unset
        /\ config.save_intermediate_states
        /\ files.state = Some(Serialize(state))
        /\ \E p \in Positions("save_report", -1, 0) :
            /\ p < Len(trace)
            /\ trace[p + 1] = Event("save_state_file", -1, 0)
    /\ (\E p \in 1..Len(trace) : trace[p].op = "save_state_file") =>
        files.state # Unset
    /\ ~ save_report =>
        /\ files = NoFiles
        /\ \A p \in 1..Len(trace) :
            trace[p].op \notin { "save_report", "save_state_file" }
    /\ pc = "returned" =>
        /\ state.status = "Completed"
        /\ state.final_report = Some(final_report)
        /\ save_report => files.report # Unset
        /\ save_report /\ config.save_intermediate_states =>
            files.state # Unset

C24_Write ==
    /\ files' # files =>
        /\ pc = "save_report"
        /\ save_report
        /\ state.status = "Completed"
        /\ state.final_report = Some(final_report)
        /\ files'.report = state.final_report
    /\ pc = "save_report" =>
        /\ state' = state
        /\ final_report' = final_report
        /\ pc' = "returned"
    /\ pc = "generate_final_report" /\ state'.status = "Completed" =>
        pc' = IF save_report THEN "save_report" ELSE "returned"

\* C24: research() writes the report file only when save_report is true and
\* only once the session is Completed with that report as its final report;
\* the state file is written only if config.save_intermediate_states is set
\* as well, right after the report file, and holds the completed session;
\* with save_report false nothing is written, and saving leaves the session
\* as final assembly left it, which is the session a run without saving
\* returns with.
C24_SavingReport == [] C24_Files /\ [][C24_Write]_vars

C24_Witness ==
    /\ pc = "returned"
    /\ save_report
    /\ config.save_intermediate_states
    /\ files.report = Some(final_report)
    /\ files.state = Some(Serialize(state))
    /\ trace[Len(trace)] = Event("save_state_file", -1, 0)

\* C25: for every configuration validate() accepts, constructing the agent
\* selects a DeepSeek or OpenAI client whose API key is set and does not fail
\* with the unsupported-provider error.
C25_ValidatedConfigConstructs ==
    api.op = "DeepSearchAgent" /\ validate(config) =>
        /\ ~ api.raised
        /\ api.value.llm \in { "DeepSeekLLM", "OpenAILLM" }
        /\ Truthy(api.value.api_key)
        /\ exc # UnsupportedProvider

====
